---- MODULE Spec2Model ----
(***************************************************************************)
(* Model of img_optim/conv_lstm_cell.py: the ConvLSTMCell state transition *)
(* (forward), its zero-state initializer (init_hidden), the construction   *)
(* of its parameters (__init__) and the hard_sigmoid activation.           *)
(*                                                                         *)
(* Numbers are fixed-point integers with One standing for 1.0; a product   *)
(* of two fixed-point numbers is rounded to the nearest unit.  Tensors are *)
(* records [ok, shape, data]; a tensor operation that PyTorch rejects      *)
(* (a convolution whose input has the wrong channel count, operands that   *)
(* do not broadcast) yields Error, and Error propagates through every      *)
(* later operation, as the raised RuntimeError leaves forward.             *)
(* All tensors are taken to live on the same CUDA device.                  *)
(***************************************************************************)
EXTENDS Integers, Sequences, FiniteSets, TLC

VARIABLES cell, state, batch_size, clean, last, steps, hs_in, hs_out

vars == <<cell, state, batch_size, clean, last, steps, hs_in, hs_out>>

\* 1.0 in fixed point (upper = torch.tensor(1.0))
One == 1000

\* most forward calls in one run
MaxSteps == 2

(***************************************************************************)
(* Fixed-point arithmetic                                                  *)
(***************************************************************************)
\* n / d rounded to the nearest integer (halves up), d > 0
RoundDiv(n, d) == (2 * n + d) \div (2 * d)

\* product of two fixed-point numbers
FMul(a, b) == RoundDiv(a * b, One)

MinI(a, b) == IF a <= b THEN a ELSE b
MaxI(a, b) == IF a >= b THEN a ELSE b

\* hard_sigmoid on one element: max(min(x*0.2 + 0.5, upper), lower)
HardSigmoid1(x) == MaxI(MinI(FMul(x, 200) + 500, One), 0)

\* tanh(x) to three decimals for x = 0.000, 0.001, ..., 4.146, the
\* largest x whose tanh does not round to 1.000
TanhTable == <<
  0, 1, 2, 3, 4, 5, 6, 7, 8, 9, 10, 11, 12, 13, 14, 15, 16, 17, 18, 19,
  20, 21, 22, 23, 24, 25, 26, 27, 28, 29, 30, 31, 32, 33, 34, 35, 36, 37, 38, 39,
  40, 41, 42, 43, 44, 45, 46, 47, 48, 49, 50, 51, 52, 53, 54, 55, 56, 57, 58, 59,
  60, 61, 62, 63, 64, 65, 66, 67, 68, 69, 70, 71, 72, 73, 74, 75, 76, 77, 78, 79,
  80, 81, 82, 83, 84, 85, 86, 87, 88, 89, 90, 91, 92, 93, 94, 95, 96, 97, 98, 99,
  100, 101, 102, 103, 104, 105, 106, 107, 108, 109, 110, 111, 112, 113, 114, 114, 115, 116, 117, 118,
  119, 120, 121, 122, 123, 124, 125, 126, 127, 128, 129, 130, 131, 132, 133, 134, 135, 136, 137, 138,
  139, 140, 141, 142, 143, 144, 145, 146, 147, 148, 149, 150, 151, 152, 153, 154, 155, 156, 157, 158,
  159, 160, 161, 162, 163, 164, 164, 165, 166, 167, 168, 169, 170, 171, 172, 173, 174, 175, 176, 177,
  178, 179, 180, 181, 182, 183, 184, 185, 186, 187, 188, 189, 190, 191, 192, 193, 194, 194, 195, 196,
  197, 198, 199, 200, 201, 202, 203, 204, 205, 206, 207, 208, 209, 210, 211, 212, 213, 214, 215, 216,
  217, 217, 218, 219, 220, 221, 222, 223, 224, 225, 226, 227, 228, 229, 230, 231, 232, 233, 234, 235,
  235, 236, 237, 238, 239, 240, 241, 242, 243, 244, 245, 246, 247, 248, 249, 250, 251, 251, 252, 253,
  254, 255, 256, 257, 258, 259, 260, 261, 262, 263, 264, 265, 265, 266, 267, 268, 269, 270, 271, 272,
  273, 274, 275, 276, 277, 278, 278, 279, 280, 281, 282, 283, 284, 285, 286, 287, 288, 289, 289, 290,
  291, 292, 293, 294, 295, 296, 297, 298, 299, 300, 300, 301, 302, 303, 304, 305, 306, 307, 308, 309,
  310, 310, 311, 312, 313, 314, 315, 316, 317, 318, 319, 319, 320, 321, 322, 323, 324, 325, 326, 327,
  327, 328, 329, 330, 331, 332, 333, 334, 335, 335, 336, 337, 338, 339, 340, 341, 342, 343, 343, 344,
  345, 346, 347, 348, 349, 350, 350, 351, 352, 353, 354, 355, 356, 357, 357, 358, 359, 360, 361, 362,
  363, 364, 364, 365, 366, 367, 368, 369, 370, 370, 371, 372, 373, 374, 375, 376, 377, 377, 378, 379,
  380, 381, 382, 383, 383, 384, 385, 386, 387, 388, 388, 389, 390, 391, 392, 393, 394, 394, 395, 396,
  397, 398, 399, 399, 400, 401, 402, 403, 404, 404, 405, 406, 407, 408, 409, 409, 410, 411, 412, 413,
  414, 414, 415, 416, 417, 418, 419, 419, 420, 421, 422, 423, 424, 424, 425, 426, 427, 428, 428, 429,
  430, 431, 432, 433, 433, 434, 435, 436, 437, 437, 438, 439, 440, 441, 441, 442, 443, 444, 445, 445,
  446, 447, 448, 449, 449, 450, 451, 452, 453, 453, 454, 455, 456, 457, 457, 458, 459, 460, 461, 461,
  462, 463, 464, 464, 465, 466, 467, 468, 468, 469, 470, 471, 472, 472, 473, 474, 475, 475, 476, 477,
  478, 478, 479, 480, 481, 482, 482, 483, 484, 485, 485, 486, 487, 488, 488, 489, 490, 491, 491, 492,
  493, 494, 495, 495, 496, 497, 498, 498, 499, 500, 501, 501, 502, 503, 504, 504, 505, 506, 506, 507,
  508, 509, 509, 510, 511, 512, 512, 513, 514, 515, 515, 516, 517, 518, 518, 519, 520, 520, 521, 522,
  523, 523, 524, 525, 526, 526, 527, 528, 528, 529, 530, 531, 531, 532, 533, 533, 534, 535, 536, 536,
  537, 538, 538, 539, 540, 541, 541, 542, 543, 543, 544, 545, 546, 546, 547, 548, 548, 549, 550, 550,
  551, 552, 553, 553, 554, 555, 555, 556, 557, 557, 558, 559, 559, 560, 561, 561, 562, 563, 564, 564,
  565, 566, 566, 567, 568, 568, 569, 570, 570, 571, 572, 572, 573, 574, 574, 575, 576, 576, 577, 578,
  578, 579, 580, 580, 581, 582, 582, 583, 584, 584, 585, 586, 586, 587, 588, 588, 589, 590, 590, 591,
  592, 592, 593, 593, 594, 595, 595, 596, 597, 597, 598, 599, 599, 600, 601, 601, 602, 602, 603, 604,
  604, 605, 606, 606, 607, 608, 608, 609, 609, 610, 611, 611, 612, 613, 613, 614, 614, 615, 616, 616,
  617, 618, 618, 619, 619, 620, 621, 621, 622, 622, 623, 624, 624, 625, 626, 626, 627, 627, 628, 629,
  629, 630, 630, 631, 632, 632, 633, 633, 634, 635, 635, 636, 636, 637, 638, 638, 639, 639, 640, 640,
  641, 642, 642, 643, 643, 644, 645, 645, 646, 646, 647, 648, 648, 649, 649, 650, 650, 651, 652, 652,
  653, 653, 654, 654, 655, 656, 656, 657, 657, 658, 658, 659, 660, 660, 661, 661, 662, 662, 663, 663,
  664, 665, 665, 666, 666, 667, 667, 668, 668, 669, 670, 670, 671, 671, 672, 672, 673, 673, 674, 675,
  675, 676, 676, 677, 677, 678, 678, 679, 679, 680, 680, 681, 682, 682, 683, 683, 684, 684, 685, 685,
  686, 686, 687, 687, 688, 688, 689, 689, 690, 691, 691, 692, 692, 693, 693, 694, 694, 695, 695, 696,
  696, 697, 697, 698, 698, 699, 699, 700, 700, 701, 701, 702, 702, 703, 703, 704, 704, 705, 705, 706,
  706, 707, 707, 708, 708, 709, 709, 710, 710, 711, 711, 712, 712, 713, 713, 714, 714, 715, 715, 716,
  716, 717, 717, 718, 718, 719, 719, 720, 720, 721, 721, 722, 722, 723, 723, 724, 724, 724, 725, 725,
  726, 726, 727, 727, 728, 728, 729, 729, 730, 730, 731, 731, 732, 732, 732, 733, 733, 734, 734, 735,
  735, 736, 736, 737, 737, 738, 738, 738, 739, 739, 740, 740, 741, 741, 742, 742, 742, 743, 743, 744,
  744, 745, 745, 746, 746, 746, 747, 747, 748, 748, 749, 749, 750, 750, 750, 751, 751, 752, 752, 753,
  753, 753, 754, 754, 755, 755, 756, 756, 757, 757, 757, 758, 758, 759, 759, 759, 760, 760, 761, 761,
  762, 762, 762, 763, 763, 764, 764, 765, 765, 765, 766, 766, 767, 767, 767, 768, 768, 769, 769, 769,
  770, 770, 771, 771, 771, 772, 772, 773, 773, 774, 774, 774, 775, 775, 776, 776, 776, 777, 777, 777,
  778, 778, 779, 779, 779, 780, 780, 781, 781, 781, 782, 782, 783, 783, 783, 784, 784, 785, 785, 785,
  786, 786, 786, 787, 787, 788, 788, 788, 789, 789, 789, 790, 790, 791, 791, 791, 792, 792, 792, 793,
  793, 794, 794, 794, 795, 795, 795, 796, 796, 797, 797, 797, 798, 798, 798, 799, 799, 799, 800, 800,
  800, 801, 801, 802, 802, 802, 803, 803, 803, 804, 804, 804, 805, 805, 805, 806, 806, 807, 807, 807,
  808, 808, 808, 809, 809, 809, 810, 810, 810, 811, 811, 811, 812, 812, 812, 813, 813, 813, 814, 814,
  814, 815, 815, 815, 816, 816, 816, 817, 817, 817, 818, 818, 818, 819, 819, 819, 820, 820, 820, 821,
  821, 821, 822, 822, 822, 823, 823, 823, 824, 824, 824, 825, 825, 825, 826, 826, 826, 827, 827, 827,
  827, 828, 828, 828, 829, 829, 829, 830, 830, 830, 831, 831, 831, 832, 832, 832, 832, 833, 833, 833,
  834, 834, 834, 835, 835, 835, 835, 836, 836, 836, 837, 837, 837, 838, 838, 838, 838, 839, 839, 839,
  840, 840, 840, 841, 841, 841, 841, 842, 842, 842, 843, 843, 843, 843, 844, 844, 844, 845, 845, 845,
  845, 846, 846, 846, 847, 847, 847, 847, 848, 848, 848, 849, 849, 849, 849, 850, 850, 850, 851, 851,
  851, 851, 852, 852, 852, 852, 853, 853, 853, 854, 854, 854, 854, 855, 855, 855, 855, 856, 856, 856,
  856, 857, 857, 857, 858, 858, 858, 858, 859, 859, 859, 859, 860, 860, 860, 860, 861, 861, 861, 861,
  862, 862, 862, 862, 863, 863, 863, 864, 864, 864, 864, 865, 865, 865, 865, 866, 866, 866, 866, 867,
  867, 867, 867, 868, 868, 868, 868, 869, 869, 869, 869, 869, 870, 870, 870, 870, 871, 871, 871, 871,
  872, 872, 872, 872, 873, 873, 873, 873, 874, 874, 874, 874, 875, 875, 875, 875, 875, 876, 876, 876,
  876, 877, 877, 877, 877, 878, 878, 878, 878, 878, 879, 879, 879, 879, 880, 880, 880, 880, 881, 881,
  881, 881, 881, 882, 882, 882, 882, 883, 883, 883, 883, 883, 884, 884, 884, 884, 884, 885, 885, 885,
  885, 886, 886, 886, 886, 886, 887, 887, 887, 887, 887, 888, 888, 888, 888, 889, 889, 889, 889, 889,
  890, 890, 890, 890, 890, 891, 891, 891, 891, 891, 892, 892, 892, 892, 892, 893, 893, 893, 893, 893,
  894, 894, 894, 894, 895, 895, 895, 895, 895, 895, 896, 896, 896, 896, 896, 897, 897, 897, 897, 897,
  898, 898, 898, 898, 898, 899, 899, 899, 899, 899, 900, 900, 900, 900, 900, 901, 901, 901, 901, 901,
  901, 902, 902, 902, 902, 902, 903, 903, 903, 903, 903, 904, 904, 904, 904, 904, 904, 905, 905, 905,
  905, 905, 906, 906, 906, 906, 906, 906, 907, 907, 907, 907, 907, 907, 908, 908, 908, 908, 908, 909,
  909, 909, 909, 909, 909, 910, 910, 910, 910, 910, 910, 911, 911, 911, 911, 911, 911, 912, 912, 912,
  912, 912, 912, 913, 913, 913, 913, 913, 913, 914, 914, 914, 914, 914, 914, 915, 915, 915, 915, 915,
  915, 916, 916, 916, 916, 916, 916, 917, 917, 917, 917, 917, 917, 918, 918, 918, 918, 918, 918, 918,
  919, 919, 919, 919, 919, 919, 920, 920, 920, 920, 920, 920, 920, 921, 921, 921, 921, 921, 921, 922,
  922, 922, 922, 922, 922, 922, 923, 923, 923, 923, 923, 923, 923, 924, 924, 924, 924, 924, 924, 924,
  925, 925, 925, 925, 925, 925, 925, 926, 926, 926, 926, 926, 926, 926, 927, 927, 927, 927, 927, 927,
  927, 928, 928, 928, 928, 928, 928, 928, 929, 929, 929, 929, 929, 929, 929, 930, 930, 930, 930, 930,
  930, 930, 930, 931, 931, 931, 931, 931, 931, 931, 932, 932, 932, 932, 932, 932, 932, 932, 933, 933,
  933, 933, 933, 933, 933, 934, 934, 934, 934, 934, 934, 934, 934, 935, 935, 935, 935, 935, 935, 935,
  935, 936, 936, 936, 936, 936, 936, 936, 936, 937, 937, 937, 937, 937, 937, 937, 937, 938, 938, 938,
  938, 938, 938, 938, 938, 938, 939, 939, 939, 939, 939, 939, 939, 939, 940, 940, 940, 940, 940, 940,
  940, 940, 940, 941, 941, 941, 941, 941, 941, 941, 941, 941, 942, 942, 942, 942, 942, 942, 942, 942,
  943, 943, 943, 943, 943, 943, 943, 943, 943, 943, 944, 944, 944, 944, 944, 944, 944, 944, 944, 945,
  945, 945, 945, 945, 945, 945, 945, 945, 946, 946, 946, 946, 946, 946, 946, 946, 946, 946, 947, 947,
  947, 947, 947, 947, 947, 947, 947, 948, 948, 948, 948, 948, 948, 948, 948, 948, 948, 949, 949, 949,
  949, 949, 949, 949, 949, 949, 949, 950, 950, 950, 950, 950, 950, 950, 950, 950, 950, 951, 951, 951,
  951, 951, 951, 951, 951, 951, 951, 951, 952, 952, 952, 952, 952, 952, 952, 952, 952, 952, 952, 953,
  953, 953, 953, 953, 953, 953, 953, 953, 953, 954, 954, 954, 954, 954, 954, 954, 954, 954, 954, 954,
  954, 955, 955, 955, 955, 955, 955, 955, 955, 955, 955, 955, 956, 956, 956, 956, 956, 956, 956, 956,
  956, 956, 956, 956, 957, 957, 957, 957, 957, 957, 957, 957, 957, 957, 957, 958, 958, 958, 958, 958,
  958, 958, 958, 958, 958, 958, 958, 958, 959, 959, 959, 959, 959, 959, 959, 959, 959, 959, 959, 959,
  960, 960, 960, 960, 960, 960, 960, 960, 960, 960, 960, 960, 960, 961, 961, 961, 961, 961, 961, 961,
  961, 961, 961, 961, 961, 961, 962, 962, 962, 962, 962, 962, 962, 962, 962, 962, 962, 962, 962, 963,
  963, 963, 963, 963, 963, 963, 963, 963, 963, 963, 963, 963, 963, 964, 964, 964, 964, 964, 964, 964,
  964, 964, 964, 964, 964, 964, 964, 965, 965, 965, 965, 965, 965, 965, 965, 965, 965, 965, 965, 965,
  965, 965, 966, 966, 966, 966, 966, 966, 966, 966, 966, 966, 966, 966, 966, 966, 966, 967, 967, 967,
  967, 967, 967, 967, 967, 967, 967, 967, 967, 967, 967, 967, 968, 968, 968, 968, 968, 968, 968, 968,
  968, 968, 968, 968, 968, 968, 968, 968, 969, 969, 969, 969, 969, 969, 969, 969, 969, 969, 969, 969,
  969, 969, 969, 969, 970, 970, 970, 970, 970, 970, 970, 970, 970, 970, 970, 970, 970, 970, 970, 970,
  970, 971, 971, 971, 971, 971, 971, 971, 971, 971, 971, 971, 971, 971, 971, 971, 971, 971, 971, 972,
  972, 972, 972, 972, 972, 972, 972, 972, 972, 972, 972, 972, 972, 972, 972, 972, 972, 973, 973, 973,
  973, 973, 973, 973, 973, 973, 973, 973, 973, 973, 973, 973, 973, 973, 973, 973, 974, 974, 974, 974,
  974, 974, 974, 974, 974, 974, 974, 974, 974, 974, 974, 974, 974, 974, 974, 975, 975, 975, 975, 975,
  975, 975, 975, 975, 975, 975, 975, 975, 975, 975, 975, 975, 975, 975, 975, 976, 976, 976, 976, 976,
  976, 976, 976, 976, 976, 976, 976, 976, 976, 976, 976, 976, 976, 976, 976, 976, 976, 977, 977, 977,
  977, 977, 977, 977, 977, 977, 977, 977, 977, 977, 977, 977, 977, 977, 977, 977, 977, 977, 977, 978,
  978, 978, 978, 978, 978, 978, 978, 978, 978, 978, 978, 978, 978, 978, 978, 978, 978, 978, 978, 978,
  978, 978, 979, 979, 979, 979, 979, 979, 979, 979, 979, 979, 979, 979, 979, 979, 979, 979, 979, 979,
  979, 979, 979, 979, 979, 979, 980, 980, 980, 980, 980, 980, 980, 980, 980, 980, 980, 980, 980, 980,
  980, 980, 980, 980, 980, 980, 980, 980, 980, 980, 980, 981, 981, 981, 981, 981, 981, 981, 981, 981,
  981, 981, 981, 981, 981, 981, 981, 981, 981, 981, 981, 981, 981, 981, 981, 981, 981, 982, 982, 982,
  982, 982, 982, 982, 982, 982, 982, 982, 982, 982, 982, 982, 982, 982, 982, 982, 982, 982, 982, 982,
  982, 982, 982, 982, 982, 983, 983, 983, 983, 983, 983, 983, 983, 983, 983, 983, 983, 983, 983, 983,
  983, 983, 983, 983, 983, 983, 983, 983, 983, 983, 983, 983, 983, 983, 983, 984, 984, 984, 984, 984,
  984, 984, 984, 984, 984, 984, 984, 984, 984, 984, 984, 984, 984, 984, 984, 984, 984, 984, 984, 984,
  984, 984, 984, 984, 984, 984, 984, 985, 985, 985, 985, 985, 985, 985, 985, 985, 985, 985, 985, 985,
  985, 985, 985, 985, 985, 985, 985, 985, 985, 985, 985, 985, 985, 985, 985, 985, 985, 985, 985, 985,
  986, 986, 986, 986, 986, 986, 986, 986, 986, 986, 986, 986, 986, 986, 986, 986, 986, 986, 986, 986,
  986, 986, 986, 986, 986, 986, 986, 986, 986, 986, 986, 986, 986, 986, 986, 986, 987, 987, 987, 987,
  987, 987, 987, 987, 987, 987, 987, 987, 987, 987, 987, 987, 987, 987, 987, 987, 987, 987, 987, 987,
  987, 987, 987, 987, 987, 987, 987, 987, 987, 987, 987, 987, 987, 987, 987, 988, 988, 988, 988, 988,
  988, 988, 988, 988, 988, 988, 988, 988, 988, 988, 988, 988, 988, 988, 988, 988, 988, 988, 988, 988,
  988, 988, 988, 988, 988, 988, 988, 988, 988, 988, 988, 988, 988, 988, 988, 988, 988, 989, 989, 989,
  989, 989, 989, 989, 989, 989, 989, 989, 989, 989, 989, 989, 989, 989, 989, 989, 989, 989, 989, 989,
  989, 989, 989, 989, 989, 989, 989, 989, 989, 989, 989, 989, 989, 989, 989, 989, 989, 989, 989, 989,
  989, 989, 989, 990, 990, 990, 990, 990, 990, 990, 990, 990, 990, 990, 990, 990, 990, 990, 990, 990,
  990, 990, 990, 990, 990, 990, 990, 990, 990, 990, 990, 990, 990, 990, 990, 990, 990, 990, 990, 990,
  990, 990, 990, 990, 990, 990, 990, 990, 990, 990, 990, 990, 990, 991, 991, 991, 991, 991, 991, 991,
  991, 991, 991, 991, 991, 991, 991, 991, 991, 991, 991, 991, 991, 991, 991, 991, 991, 991, 991, 991,
  991, 991, 991, 991, 991, 991, 991, 991, 991, 991, 991, 991, 991, 991, 991, 991, 991, 991, 991, 991,
  991, 991, 991, 991, 991, 991, 991, 991, 991, 992, 992, 992, 992, 992, 992, 992, 992, 992, 992, 992,
  992, 992, 992, 992, 992, 992, 992, 992, 992, 992, 992, 992, 992, 992, 992, 992, 992, 992, 992, 992,
  992, 992, 992, 992, 992, 992, 992, 992, 992, 992, 992, 992, 992, 992, 992, 992, 992, 992, 992, 992,
  992, 992, 992, 992, 992, 992, 992, 992, 992, 992, 992, 992, 993, 993, 993, 993, 993, 993, 993, 993,
  993, 993, 993, 993, 993, 993, 993, 993, 993, 993, 993, 993, 993, 993, 993, 993, 993, 993, 993, 993,
  993, 993, 993, 993, 993, 993, 993, 993, 993, 993, 993, 993, 993, 993, 993, 993, 993, 993, 993, 993,
  993, 993, 993, 993, 993, 993, 993, 993, 993, 993, 993, 993, 993, 993, 993, 993, 993, 993, 993, 993,
  993, 993, 993, 994, 994, 994, 994, 994, 994, 994, 994, 994, 994, 994, 994, 994, 994, 994, 994, 994,
  994, 994, 994, 994, 994, 994, 994, 994, 994, 994, 994, 994, 994, 994, 994, 994, 994, 994, 994, 994,
  994, 994, 994, 994, 994, 994, 994, 994, 994, 994, 994, 994, 994, 994, 994, 994, 994, 994, 994, 994,
  994, 994, 994, 994, 994, 994, 994, 994, 994, 994, 994, 994, 994, 994, 994, 994, 994, 994, 994, 994,
  994, 994, 994, 994, 994, 994, 994, 995, 995, 995, 995, 995, 995, 995, 995, 995, 995, 995, 995, 995,
  995, 995, 995, 995, 995, 995, 995, 995, 995, 995, 995, 995, 995, 995, 995, 995, 995, 995, 995, 995,
  995, 995, 995, 995, 995, 995, 995, 995, 995, 995, 995, 995, 995, 995, 995, 995, 995, 995, 995, 995,
  995, 995, 995, 995, 995, 995, 995, 995, 995, 995, 995, 995, 995, 995, 995, 995, 995, 995, 995, 995,
  995, 995, 995, 995, 995, 995, 995, 995, 995, 995, 995, 995, 995, 995, 995, 995, 995, 995, 995, 995,
  995, 995, 995, 995, 995, 995, 995, 995, 996, 996, 996, 996, 996, 996, 996, 996, 996, 996, 996, 996,
  996, 996, 996, 996, 996, 996, 996, 996, 996, 996, 996, 996, 996, 996, 996, 996, 996, 996, 996, 996,
  996, 996, 996, 996, 996, 996, 996, 996, 996, 996, 996, 996, 996, 996, 996, 996, 996, 996, 996, 996,
  996, 996, 996, 996, 996, 996, 996, 996, 996, 996, 996, 996, 996, 996, 996, 996, 996, 996, 996, 996,
  996, 996, 996, 996, 996, 996, 996, 996, 996, 996, 996, 996, 996, 996, 996, 996, 996, 996, 996, 996,
  996, 996, 996, 996, 996, 996, 996, 996, 996, 996, 996, 996, 996, 996, 996, 996, 996, 996, 996, 996,
  996, 996, 996, 996, 996, 996, 996, 996, 996, 996, 996, 996, 996, 996, 997, 997, 997, 997, 997, 997,
  997, 997, 997, 997, 997, 997, 997, 997, 997, 997, 997, 997, 997, 997, 997, 997, 997, 997, 997, 997,
  997, 997, 997, 997, 997, 997, 997, 997, 997, 997, 997, 997, 997, 997, 997, 997, 997, 997, 997, 997,
  997, 997, 997, 997, 997, 997, 997, 997, 997, 997, 997, 997, 997, 997, 997, 997, 997, 997, 997, 997,
  997, 997, 997, 997, 997, 997, 997, 997, 997, 997, 997, 997, 997, 997, 997, 997, 997, 997, 997, 997,
  997, 997, 997, 997, 997, 997, 997, 997, 997, 997, 997, 997, 997, 997, 997, 997, 997, 997, 997, 997,
  997, 997, 997, 997, 997, 997, 997, 997, 997, 997, 997, 997, 997, 997, 997, 997, 997, 997, 997, 997,
  997, 997, 997, 997, 997, 997, 997, 997, 997, 997, 997, 997, 997, 997, 997, 997, 997, 997, 997, 997,
  997, 997, 997, 997, 997, 997, 997, 997, 997, 997, 997, 997, 997, 997, 997, 997, 997, 997, 997, 997,
  997, 997, 998, 998, 998, 998, 998, 998, 998, 998, 998, 998, 998, 998, 998, 998, 998, 998, 998, 998,
  998, 998, 998, 998, 998, 998, 998, 998, 998, 998, 998, 998, 998, 998, 998, 998, 998, 998, 998, 998,
  998, 998, 998, 998, 998, 998, 998, 998, 998, 998, 998, 998, 998, 998, 998, 998, 998, 998, 998, 998,
  998, 998, 998, 998, 998, 998, 998, 998, 998, 998, 998, 998, 998, 998, 998, 998, 998, 998, 998, 998,
  998, 998, 998, 998, 998, 998, 998, 998, 998, 998, 998, 998, 998, 998, 998, 998, 998, 998, 998, 998,
  998, 998, 998, 998, 998, 998, 998, 998, 998, 998, 998, 998, 998, 998, 998, 998, 998, 998, 998, 998,
  998, 998, 998, 998, 998, 998, 998, 998, 998, 998, 998, 998, 998, 998, 998, 998, 998, 998, 998, 998,
  998, 998, 998, 998, 998, 998, 998, 998, 998, 998, 998, 998, 998, 998, 998, 998, 998, 998, 998, 998,
  998, 998, 998, 998, 998, 998, 998, 998, 998, 998, 998, 998, 998, 998, 998, 998, 998, 998, 998, 998,
  998, 998, 998, 998, 998, 998, 998, 998, 998, 998, 998, 998, 998, 998, 998, 998, 998, 998, 998, 998,
  998, 998, 998, 998, 998, 998, 998, 998, 998, 998, 998, 998, 998, 998, 998, 998, 998, 998, 998, 998,
  998, 998, 998, 998, 998, 998, 998, 998, 998, 998, 998, 998, 998, 998, 998, 998, 998, 998, 998, 998,
  998, 998, 998, 998, 998, 998, 998, 998, 998, 998, 998, 998, 998, 998, 998, 998, 998, 998, 999, 999,
  999, 999, 999, 999, 999, 999, 999, 999, 999, 999, 999, 999, 999, 999, 999, 999, 999, 999, 999, 999,
  999, 999, 999, 999, 999, 999, 999, 999, 999, 999, 999, 999, 999, 999, 999, 999, 999, 999, 999, 999,
  999, 999, 999, 999, 999, 999, 999, 999, 999, 999, 999, 999, 999, 999, 999, 999, 999, 999, 999, 999,
  999, 999, 999, 999, 999, 999, 999, 999, 999, 999, 999, 999, 999, 999, 999, 999, 999, 999, 999, 999,
  999, 999, 999, 999, 999, 999, 999, 999, 999, 999, 999, 999, 999, 999, 999, 999, 999, 999, 999, 999,
  999, 999, 999, 999, 999, 999, 999, 999, 999, 999, 999, 999, 999, 999, 999, 999, 999, 999, 999, 999,
  999, 999, 999, 999, 999, 999, 999, 999, 999, 999, 999, 999, 999, 999, 999, 999, 999, 999, 999, 999,
  999, 999, 999, 999, 999, 999, 999, 999, 999, 999, 999, 999, 999, 999, 999, 999, 999, 999, 999, 999,
  999, 999, 999, 999, 999, 999, 999, 999, 999, 999, 999, 999, 999, 999, 999, 999, 999, 999, 999, 999,
  999, 999, 999, 999, 999, 999, 999, 999, 999, 999, 999, 999, 999, 999, 999, 999, 999, 999, 999, 999,
  999, 999, 999, 999, 999, 999, 999, 999, 999, 999, 999, 999, 999, 999, 999, 999, 999, 999, 999, 999,
  999, 999, 999, 999, 999, 999, 999, 999, 999, 999, 999, 999, 999, 999, 999, 999, 999, 999, 999, 999,
  999, 999, 999, 999, 999, 999, 999, 999, 999, 999, 999, 999, 999, 999, 999, 999, 999, 999, 999, 999,
  999, 999, 999, 999, 999, 999, 999, 999, 999, 999, 999, 999, 999, 999, 999, 999, 999, 999, 999, 999,
  999, 999, 999, 999, 999, 999, 999, 999, 999, 999, 999, 999, 999, 999, 999, 999, 999, 999, 999, 999,
  999, 999, 999, 999, 999, 999, 999, 999, 999, 999, 999, 999, 999, 999, 999, 999, 999, 999, 999, 999,
  999, 999, 999, 999, 999, 999, 999, 999, 999, 999, 999, 999, 999, 999, 999, 999, 999, 999, 999, 999,
  999, 999, 999, 999, 999, 999, 999, 999, 999, 999, 999, 999, 999, 999, 999, 999, 999, 999, 999, 999,
  999, 999, 999, 999, 999, 999, 999, 999, 999, 999, 999, 999, 999, 999, 999, 999, 999, 999, 999, 999,
  999, 999, 999, 999, 999, 999, 999, 999, 999, 999, 999, 999, 999, 999, 999, 999, 999, 999, 999, 999,
  999, 999, 999, 999, 999, 999, 999, 999, 999, 999, 999, 999, 999, 999, 999, 999, 999, 999, 999, 999,
  999, 999, 999, 999, 999, 999, 999, 999, 999, 999, 999, 999, 999, 999, 999, 999, 999, 999, 999, 999,
  999, 999, 999, 999, 999, 999, 999, 999, 999, 999, 999, 999, 999, 999, 999, 999, 999, 999, 999, 999,
  999, 999, 999, 999, 999, 999, 999, 999, 999, 999, 999, 999, 999, 999, 999, 999, 999, 999, 999, 999,
  999, 999, 999, 999, 999, 999, 999, 999, 999, 999, 999, 999, 999, 999, 999, 999, 999, 999, 999, 999,
  999, 999, 999, 999, 999, 999, 999, 999, 999, 999, 999, 999, 999, 999, 999, 999, 999, 999, 999, 999,
  999, 999, 999, 999, 999, 999, 999, 999, 999, 999, 999, 999, 999, 999, 999, 999, 999, 999, 999, 999,
  999, 999, 999, 999, 999, 999, 999>>

\* tanh of a non-negative fixed-point number, to three decimals
TanhPos(x) == IF x >= Len(TanhTable) THEN One ELSE TanhTable[x + 1]

\* torch.tanh on one element (odd function)
Tanh1(x) == IF x >= 0 THEN TanhPos(x) ELSE -TanhPos(-x)

(***************************************************************************)
(* Tensors                                                                 *)
(***************************************************************************)
\* f itself; comparing a function constructor makes TLC tabulate it once
\* (eager evaluation of a tensor expression) instead of on every access
Strict(f) == IF f = f THEN f ELSE f

Error == [ok |-> FALSE, shape |-> <<>>, data |-> <<>>]

Indices(shape) == (1..shape[1]) \X (1..shape[2]) \X (1..shape[3]) \X (1..shape[4])

\* torch.zeros(shape), torch.ones(shape)
Zeros(shape) == [ok |-> TRUE, shape |-> shape, data |-> [ix \in Indices(shape) |-> 0]]
Ones(shape) == [ok |-> TRUE, shape |-> shape, data |-> [ix \in Indices(shape) |-> One]]

\* two shapes broadcast when, in each dimension, they agree or one of them is 1
Broadcastable(s, t) == \A k \in 1..4 : s[k] = t[k] \/ s[k] = 1 \/ t[k] = 1

BroadcastShape(s, t) == [k \in 1..4 |-> MaxI(s[k], t[k])]

\* the element of tensor a that broadcasting aligns with index ix
At(a, ix) == a.data[<<MinI(ix[1], a.shape[1]), MinI(ix[2], a.shape[2]),
                      MinI(ix[3], a.shape[3]), MinI(ix[4], a.shape[4])>>]

\* elementwise a + b, a - b, a * b with broadcasting
Add(a, b) ==
  IF ~a.ok \/ ~b.ok THEN Error
  ELSE IF ~Broadcastable(a.shape, b.shape) THEN Error
  ELSE LET s == BroadcastShape(a.shape, b.shape)
       IN  [ok |-> TRUE, shape |-> s, data |-> Strict([ix \in Indices(s) |-> At(a, ix) + At(b, ix)])]

Sub(a, b) ==
  IF ~a.ok \/ ~b.ok THEN Error
  ELSE IF ~Broadcastable(a.shape, b.shape) THEN Error
  ELSE LET s == BroadcastShape(a.shape, b.shape)
       IN  [ok |-> TRUE, shape |-> s, data |-> Strict([ix \in Indices(s) |-> At(a, ix) - At(b, ix)])]

Mul(a, b) ==
  IF ~a.ok \/ ~b.ok THEN Error
  ELSE IF ~Broadcastable(a.shape, b.shape) THEN Error
  ELSE LET s == BroadcastShape(a.shape, b.shape)
       IN  [ok |-> TRUE, shape |-> s, data |-> Strict([ix \in Indices(s) |-> FMul(At(a, ix), At(b, ix))])]

\* hard_sigmoid without its lower clamp: min(input*0.2 + 0.5, upper)
hard_sigmoid_no_lower(input) ==
  IF ~input.ok THEN Error
  ELSE [ok |-> TRUE, shape |-> input.shape,
        data |-> Strict([ix \in Indices(input.shape) |->
                           MinI(FMul(input.data[ix], 200) + 500, One)])]

\* hard_sigmoid(input): elementwise, shape kept
hard_sigmoid(input) ==
  IF ~input.ok THEN Error
  ELSE [ok |-> TRUE, shape |-> input.shape,
        data |-> Strict([ix \in Indices(input.shape) |-> HardSigmoid1(input.data[ix])])]

\* torch.tanh(input): elementwise, shape kept
tanh(input) ==
  IF ~input.ok THEN Error
  ELSE [ok |-> TRUE, shape |-> input.shape,
        data |-> Strict([ix \in Indices(input.shape) |-> Tanh1(input.data[ix])])]

\* the input elements <<c, iy, ix>> of an h x w input that some kernel tap
\* meets at output position <<y, x>>; the other taps meet zero padding
Taps(conv, h, w, y, x) ==
  {t \in (1..conv.in_channels) \X (1..h) \X (1..w) :
      /\ t[2] - y + 1 + conv.padding[1] \in 1..conv.kernel_size[1]
      /\ t[3] - x + 1 + conv.padding[2] \in 1..conv.kernel_size[2]}

RECURSIVE SumOver(_, _)
SumOver(S, f) ==
  IF S = {} THEN 0
  ELSE LET e == CHOOSE e \in S : TRUE IN f[e] + SumOver(S \ {e}, f)

\* conv(input): stride 1, zero padding; an input whose channel count is not
\* in_channels, or that is smaller than the kernel after padding, is rejected
Conv2d(conv, input) ==
  IF ~input.ok THEN Error
  ELSE IF input.shape[2] # conv.in_channels THEN Error
  ELSE LET h  == input.shape[3]
           w  == input.shape[4]
           oh == h + 2 * conv.padding[1] - conv.kernel_size[1] + 1
           ow == w + 2 * conv.padding[2] - conv.kernel_size[2] + 1
           s  == <<input.shape[1], conv.out_channels, oh, ow>>
       IN  IF oh < 1 \/ ow < 1 THEN Error
           ELSE [ok |-> TRUE, shape |-> s,
                 data |-> Strict([ix \in Indices(s) |->
                    LET T == Taps(conv, h, w, ix[3], ix[4])
                    IN  (IF conv.has_bias THEN conv.bias[ix[2]] ELSE 0)
                        + SumOver(T, [t \in T |->
                            FMul(conv.weight[<<ix[2], t[1],
                                               t[2] - ix[3] + 1 + conv.padding[1],
                                               t[3] - ix[4] + 1 + conv.padding[2]>>],
                                 input.data[<<ix[1], t[1], t[2], t[3]>>])])])]

(***************************************************************************)
(* ConvLSTMCell                                                            *)
(***************************************************************************)
kern_names == {"Wxi", "Whi", "Wxf", "Whf", "Wxo", "Who", "Wxc", "Whc"}
peep_names == {"Wci", "Wcf", "Wco"}
tied_bias_names == {"bi", "bf", "bc", "bo"}

\* Parameter(data, requires_grad=True): the Parameter constructor takes its
\* own requires_grad argument, True unless given, and does not read the
\* requires_grad of the tensor it wraps
Parameter(data, data_requires_grad) == [data |-> data, requires_grad |-> TRUE]

\* nn.Conv2d draws every weight and every bias element from
\* U(-bound, bound), bound = 1/sqrt(fan_in), fan_in = in_channels * kh * kw:
\* the bound in fixed point, rounded down
InitBound(fan_in) ==
  CHOOSE b \in 0..One : b * b * fan_in <= One * One /\ (b + 1) * (b + 1) * fan_in > One * One

kern_index == [Wxi |-> 1, Whi |-> 2, Wxf |-> 3, Whf |-> 4, Wxo |-> 5, Who |-> 6, Wxc |-> 7, Whc |-> 8]

\* one outcome of the draw for element ix = <<o, c, ky, kx>> of kernel kern_n:
\* a multiple of bound/4 strictly inside the range, differing from tap to
\* tap, from channel to channel and from kernel to kernel
KernelFill(seed, kern_n, bound, ix) ==
  RoundDiv(bound * (((seed * (kern_index[kern_n] + ix[1] + 2 * ix[2] + 3 * ix[3] + 5 * ix[4])) % 7) - 3), 4)

\* and for element o of its bias
BiasFill(seed, kern_n, bound, o) ==
  RoundDiv(bound * (((seed * (3 * kern_index[kern_n] + o) + 2) % 7) - 3), 4)

\* nn.Conv2d(in_channels, out_channels, kernel_size, 1, padding, bias=bias)
\* as its initialisation, drawing outcome seed, leaves it
Conv2dModule(in_channels, out_channels, kernel_size, padding, bias, seed, kern_n) ==
  LET bound == InitBound(in_channels * kernel_size[1] * kernel_size[2])
  IN  [in_channels |-> in_channels, out_channels |-> out_channels,
       kernel_size |-> kernel_size, padding |-> padding, has_bias |-> bias,
       weight |-> [ix \in (1..out_channels) \X (1..in_channels)
                          \X (1..kernel_size[1]) \X (1..kernel_size[2]) |->
                     KernelFill(seed, kern_n, bound, ix)],
       bias |-> IF bias THEN [o \in 1..out_channels |-> BiasFill(seed, kern_n, bound, o)]
                ELSE <<>>]

\* ConvLSTMCell.__init__
ConvLSTMCell(input_size, input_dim, hidden_dim, kernel_size, gating_mode, peephole, tied_bias, seed) ==
  LET padding == <<kernel_size[1] \div 2, kernel_size[2] \div 2>>
      conv(kern_n) ==
        IF kern_n \in {"Wxi", "Wxf", "Wxo", "Wxc"}
        THEN Conv2dModule(input_dim, hidden_dim, kernel_size, padding, ~tied_bias, seed, kern_n)
        ELSE Conv2dModule(hidden_dim, hidden_dim, kernel_size, padding, ~tied_bias, seed, kern_n)
      peep == Parameter(Ones(<<1, hidden_dim, input_size[1], input_size[2]>>), peephole)
      bias == Parameter(Zeros(<<1, hidden_dim, 1, 1>>), tied_bias)
  IN  [gating_mode |-> gating_mode, peephole |-> peephole, tied_bias |-> tied_bias,
       input_size |-> input_size, input_dim |-> input_dim, hidden_dim |-> hidden_dim,
       kernel_size |-> kernel_size, padding |-> padding,
       Wxi |-> conv("Wxi"), Whi |-> conv("Whi"), Wxf |-> conv("Wxf"), Whf |-> conv("Whf"),
       Wxo |-> conv("Wxo"), Who |-> conv("Who"), Wxc |-> conv("Wxc"), Whc |-> conv("Whc"),
       Wci |-> peep.data, Wcf |-> peep.data, Wco |-> peep.data,
       bi |-> bias.data, bf |-> bias.data, bc |-> bias.data, bo |-> bias.data,
       requires_grad |-> [n \in peep_names \cup tied_bias_names |->
                            IF n \in peep_names THEN peep.requires_grad
                            ELSE bias.requires_grad]]

\* line 151: i = hard_sigmoid(Wxi(Xt) + Whi(Htm1) + Wci * Ctm1 + bi)
gate_i(c, Xt, Htm1, Ctm1) ==
  hard_sigmoid(Add(Add(Add(Conv2d(c.Wxi, Xt), Conv2d(c.Whi, Htm1)), Mul(c.Wci, Ctm1)), c.bi))

\* line 152: f = hard_sigmoid(Wxf(Xt) + Whf(Htm1) + Wcf * Ctm1 + bf)
gate_f(c, Xt, Htm1, Ctm1) ==
  hard_sigmoid(Add(Add(Add(Conv2d(c.Wxf, Xt), Conv2d(c.Whf, Htm1)), Mul(c.Wcf, Ctm1)), c.bf))

\* lines 154, 159: Wxc(Xt) + Whc(Htm1) + bc, the candidate before its activation
candidate_pre(c, Xt, Htm1) == Add(Add(Conv2d(c.Wxc, Xt), Conv2d(c.Whc, Htm1)), c.bc)

\* line 155: Ct = f * Ctm1 + i * Ct_
cell_mul(f, Ctm1, i, Ct_) == Add(Mul(f, Ctm1), Mul(i, Ct_))

\* line 160: Ct = f * Ctm1 + Ct_ - i
cell_sub(f, Ctm1, i, Ct_) == Sub(Add(Mul(f, Ctm1), Ct_), i)

\* lines 156, 161: o = hard_sigmoid(Wxo(Xt) + Who(Htm1) + Wco * Ct + bo)
gate_o(c, Xt, Htm1, Ct) ==
  hard_sigmoid(Add(Add(Add(Conv2d(c.Wxo, Xt), Conv2d(c.Who, Htm1)), Mul(c.Wco, Ct)), c.bo))

\* line 157: Ht = o * tanh(Ct)
hidden_mul(o, Ct) == Mul(o, tanh(Ct))

\* line 162 with the sign slipped: Ht = hard_sigmoid(Ct) + o
hidden_sub_plus(o, Ct) == Add(hard_sigmoid(Ct), o)

\* line 162: Ht = hard_sigmoid(Ct) - o
hidden_sub(o, Ct) == Sub(hard_sigmoid(Ct), o)

\* line 153 testing the string's truth: if self.gating_mode
is_mul_truthy(c) == c.gating_mode # ""

\* line 153: if self.gating_mode == 'mul'
is_mul(c) == c.gating_mode = "mul"

\* ConvLSTMCell.forward: the gates and both members of the returned pair;
\* ok is FALSE when any operation of the call raised
forward(c, input_tensor, prev_state) ==
  LET Xt   == input_tensor
      Htm1 == prev_state[1]
      Ctm1 == prev_state[2]
      i    == gate_i(c, Xt, Htm1, Ctm1)
      f    == gate_f(c, Xt, Htm1, Ctm1)
      z    == candidate_pre(c, Xt, Htm1)
      Ct_  == IF is_mul(c) THEN tanh(z) ELSE hard_sigmoid(z)
      Ct   == IF is_mul(c) THEN cell_mul(f, Ctm1, i, Ct_)
                                       ELSE cell_sub(f, Ctm1, i, Ct_)
      o    == gate_o(c, Xt, Htm1, Ct)
      Ht   == IF is_mul(c) THEN hidden_mul(o, Ct) ELSE hidden_sub(o, Ct)
  IN  [ok |-> Ht.ok /\ Ct.ok, i |-> i, f |-> f, z |-> z, o |-> o, Ht |-> Ht, Ct |-> Ct]

\* init_hidden sized by input_dim where hidden_dim belongs
init_hidden_input_dim(c, batch) ==
  <<Zeros(<<batch, c.input_dim, c.input_size[1], c.input_size[2]>>),
    Zeros(<<batch, c.input_dim, c.input_size[1], c.input_size[2]>>)>>

\* ConvLSTMCell.init_hidden
init_hidden(c, batch) ==
  <<Zeros(<<batch, c.hidden_dim, c.input_size[1], c.input_size[2]>>),
    Zeros(<<batch, c.hidden_dim, c.input_size[1], c.input_size[2]>>)>>
(***************************************************************************)
(* The caller: it builds a cell, obtains a state pair from init_hidden or  *)
(* brings one of its own, and threads the pair through forward calls.      *)
(***************************************************************************)
Sizes == {<<1, 2>>, <<2, 1>>}
Dims == {1, 2}
Kernels == {<<1, 1>>, <<3, 3>>, <<2, 3>>}
Modes == {"mul", "sub", "add"}
\* the outcomes of the random initialisation that are followed
Seeds == {1, 2}
BatchSizes == {1, 2}

\* the shapes, batch dimension aside, a caller's tensor may have
TensorShapes == {<<c, s[1], s[2]>> : c \in Dims, s \in Sizes}

\* a tensor of the given shape whose elements ramp from -0.5 in steps of 0.5
Fill(shape) ==
  [ok |-> TRUE, shape |-> shape,
   data |-> [ix \in Indices(shape) |-> 500 * (ix[1] + ix[2] + ix[3] + ix[4]) - 2500]]

\* the shape (batch aside) the configuration asks of a state tensor and of a frame
StateShape(c) == <<c.hidden_dim, c.input_size[1], c.input_size[2]>>
FrameShape(c) == <<c.input_dim, c.input_size[1], c.input_size[2]>>

\* the shapes a caller passes where shape s is asked for: s itself, and those
\* that differ from it in the channel count or in the spatial size, not both
Near(s) == {t \in TensorShapes : t[1] = s[1] \/ <<t[2], t[3]>> = <<s[2], s[3]>>}

NoState == [has |-> FALSE, H |-> Error, C |-> Error]
NoCall == [kind |-> "none"]

Init ==
  /\ \E input_size \in Sizes, input_dim \in Dims, hidden_dim \in Dims,
        kernel_size \in Kernels, gating_mode \in Modes,
        peephole \in BOOLEAN, tied_bias \in BOOLEAN, seed \in Seeds :
        cell = ConvLSTMCell(input_size, input_dim, hidden_dim, kernel_size,
                            gating_mode, peephole, tied_bias, seed)
  /\ state = NoState
  /\ batch_size = 0
  /\ clean = FALSE
  /\ last = NoCall
  /\ steps = 0
  /\ hs_in = 0
  /\ hs_out = <<>>

\* convolution conv with every weight and every bias element set to 0
Zeroed(conv) ==
  [conv EXCEPT !.weight = [ix \in DOMAIN conv.weight |-> 0],
               !.bias = [o \in DOMAIN conv.bias |-> 0]]

\* the configuration of the end-to-end scenario: one input and one hidden
\* channel, a 3x3 kernel, no peephole, untied biases
ScenarioConfig(c) ==
  /\ c.input_dim = 1 /\ c.hidden_dim = 1 /\ c.kernel_size = <<3, 3>>
  /\ ~c.peephole /\ ~c.tied_bias

\* the setup of the end-to-end scenario: on a cell of its configuration the
\* caller, before the first call, sets all convolution weights and biases to 0
AssignZeroWeights ==
  /\ ~state.has
  /\ ScenarioConfig(cell)
  /\ cell.Wxi # Zeroed(cell.Wxi)
  /\ cell' = [cell EXCEPT !.Wxi = Zeroed(cell.Wxi), !.Whi = Zeroed(cell.Whi),
                          !.Wxf = Zeroed(cell.Wxf), !.Whf = Zeroed(cell.Whf),
                          !.Wxo = Zeroed(cell.Wxo), !.Who = Zeroed(cell.Who),
                          !.Wxc = Zeroed(cell.Wxc), !.Whc = Zeroed(cell.Whc)]
  /\ UNCHANGED <<state, batch_size, clean, last, steps, hs_in, hs_out>>

\* Htm1, Ctm1 = model.init_hidden(batch)
InitHidden(batch) ==
  /\ ~state.has
  /\ LET p == init_hidden(cell, batch)
     IN  state' = [has |-> TRUE, H |-> p[1], C |-> p[2]]
  /\ batch_size' = batch
  /\ clean' = TRUE
  /\ UNCHANGED <<cell, last, steps, hs_in, hs_out>>

\* the caller brings a state pair of its own: both tensors of the configured
\* shape, or one of them (which) of another shape
SupplyState(batch, which, shape) ==
  /\ ~state.has
  /\ state' = [has |-> TRUE,
               H |-> Fill(<<batch>> \o (IF which = "H" THEN shape ELSE StateShape(cell))),
               C |-> Fill(<<batch>> \o (IF which = "C" THEN shape ELSE StateShape(cell)))]
  /\ batch_size' = batch
  /\ clean' = FALSE
  /\ UNCHANGED <<cell, last, steps, hs_in, hs_out>>

\* Ht, Ct = model(x, (Htm1, Ctm1)); the caller keeps the returned pair,
\* or its old one when the call raised
Forward(Xt) ==
  /\ state.has
  /\ steps < MaxSteps
  /\ \E r \in {forward(cell, Xt, <<state.H, state.C>>)} :
         /\ last' = [kind |-> IF r.ok THEN "ok" ELSE "error", X |-> Xt,
                     prev |-> <<state.H, state.C>>, out |-> r]
         /\ state' = IF r.ok THEN [has |-> TRUE, H |-> r.Ht, C |-> r.Ct] ELSE state
  /\ clean' = (clean /\ Xt.shape = <<batch_size>> \o FrameShape(cell))
  /\ steps' = steps + 1
  /\ UNCHANGED <<cell, batch_size, hs_in, hs_out>>

Next ==
  \/ AssignZeroWeights
  \/ \E batch \in BatchSizes : InitHidden(batch)
  \/ \E batch \in BatchSizes, which \in {"H", "C"}, shape \in Near(StateShape(cell)) :
        SupplyState(batch, which, shape)
  \/ \E shape \in Near(FrameShape(cell)) : Forward(Fill(<<batch_size>> \o shape))

Spec == Init /\ [][Next]_vars

(***************************************************************************)
(* hard_sigmoid on its own: one input from a grid of multiples of 0.025    *)
(***************************************************************************)
\* the grid reaches from -0.025 * HSGridMax to 0.025 * HSGridMax
HSGridMax == 140

HSGrid == {25 * k : k \in (-HSGridMax)..HSGridMax}

InitHS ==
  /\ cell = ConvLSTMCell(<<1, 2>>, 1, 1, <<1, 1>>, "mul", FALSE, FALSE, 1)
  /\ state = NoState
  /\ batch_size = 0
  /\ clean = FALSE
  /\ last = NoCall
  /\ steps = 0
  /\ hs_in \in HSGrid
  /\ hs_out = <<>>

\* hard_sigmoid(torch.tensor([[[[hs_in]]]]))
ApplyHardSigmoid ==
  /\ hs_out = <<>>
  /\ hs_out' = <<hard_sigmoid([ok |-> TRUE, shape |-> <<1, 1, 1, 1>>,
                               data |-> [ix \in Indices(<<1, 1, 1, 1>>) |-> hs_in]]).data[<<1, 1, 1, 1>>]>>
  /\ UNCHANGED <<cell, state, batch_size, clean, last, steps, hs_in>>

NextHS == ApplyHardSigmoid

SpecHS == InitHS /\ [][NextHS]_vars
(***************************************************************************)
(* Properties                                                              *)
(***************************************************************************)
OddKernel(c) == c.kernel_size[1] % 2 = 1 /\ c.kernel_size[2] % 2 = 1

\* every element of tensor t lies in lo..hi
Within(t, lo, hi) == \A ix \in Indices(t.shape) : lo <= t.data[ix] /\ t.data[ix] <= hi

\* C1: with odd kernel dimensions, a state pair that comes from
\* init_hidden(batch) through forward calls on frames of shape
\* (batch, input_dim, h, w) always has both members of shape
\* (batch, hidden_dim, h, w), and every such call returns a pair.
C1_StateShapePreserved ==
  (clean /\ OddKernel(cell)) =>
     /\ state.H.shape = <<batch_size>> \o StateShape(cell)
     /\ state.C.shape = <<batch_size>> \o StateShape(cell)
     /\ last.kind # "error"

C1_Witness ==
  /\ clean /\ steps = MaxSteps /\ last.kind = "ok"
  /\ cell.kernel_size = <<3, 3>> /\ batch_size = 2
  /\ cell.hidden_dim = 2 /\ cell.input_dim = 1
  /\ state.H.shape = <<2, 2>> \o cell.input_size

\* the gate a call would have computed with its peephole term removed
GateWithoutPeephole(wx, wh, b, Xt, Htm1) ==
  hard_sigmoid(Add(Add(Conv2d(wx, Xt), Conv2d(wh, Htm1)), b))

\* C2: with peephole=False the cell state contributes nothing to the gates:
\* i, f and o of every completed call equal the gates computed without the
\* peephole term.
C2_PeepholeOffIsNoOp ==
  (last.kind = "ok" /\ ~cell.peephole) =>
     /\ last.out.i = GateWithoutPeephole(cell.Wxi, cell.Whi, cell.bi, last.X, last.prev[1])
     /\ last.out.f = GateWithoutPeephole(cell.Wxf, cell.Whf, cell.bf, last.X, last.prev[1])
     /\ last.out.o = GateWithoutPeephole(cell.Wxo, cell.Who, cell.bo, last.X, last.prev[1])

\* the end-to-end scenario: its configuration with every weight and bias 0
ZeroScenario(c) ==
  /\ ScenarioConfig(c)
  /\ \A k \in {c.Wxi, c.Whi, c.Wxf, c.Whf, c.Wxo, c.Who, c.Wxc, c.Whc} :
        k.has_bias /\ k = Zeroed(k)

\* C3: in the all-zero scenario one forward step on any frame and any
\* previous state of the configured shapes gives i = f = 0.5 and
\* Ct = 0.5 * Ctm1 in both modes and, in multiplicative mode, Ht = 0
\* (so that n steps halve the cell state n times).
C3_ZeroWeightsHalveCell ==
  (/\ last.kind = "ok" /\ ZeroScenario(cell)
   /\ last.X.shape = <<batch_size>> \o FrameShape(cell)
   /\ last.prev[1].shape = <<batch_size>> \o StateShape(cell)
   /\ last.prev[2].shape = <<batch_size>> \o StateShape(cell)) =>
     /\ Within(last.out.i, 500, 500)
     /\ Within(last.out.f, 500, 500)
     /\ \A ix \in Indices(last.out.Ct.shape) :
           last.out.Ct.data[ix] = FMul(500, last.prev[2].data[ix])
     /\ cell.gating_mode = "mul" => Within(last.out.Ht, 0, 0)

\* C4: hard_sigmoid(x) = clamp(0.2 x + 0.5, 0, 1): within [0, 1], 0 up to
\* -2.5, 1 from 2.5 on, 0.2 x + 0.5 in between; 0 -> 0.5, 2 -> 0.9, 3 -> 1,
\* -3 -> 0.
C4_HardSigmoidClamp ==
  hs_out # <<>> =>
     /\ 0 <= hs_out[1] /\ hs_out[1] <= One
     /\ hs_in <= -2500 => hs_out[1] = 0
     /\ hs_in >= 2500 => hs_out[1] = One
     /\ (-2500 < hs_in /\ hs_in < 2500) => 5 * (hs_out[1] - 500) = hs_in
     /\ hs_in = 0 => hs_out[1] = 500
     /\ hs_in = 2000 => hs_out[1] = 900
     /\ hs_in = 3000 => hs_out[1] = 1000
     /\ hs_in = -3000 => hs_out[1] = 0

C4_Witness == hs_out = <<900>> /\ hs_in = 2000

\* C5: a cell whose gating_mode is neither 'mul' nor 'sub' never returns a
\* state pair from forward.
C5_UnknownModeNeverReturns ==
  cell.gating_mode \notin {"mul", "sub"} => last.kind # "ok"

\* C6: a forward call whose frame, previous hidden state or previous cell
\* state disagrees with the configuration in channel count or spatial size
\* ends in an error and returns no pair.
C6_ShapeMismatchFails ==
  (/\ last.kind # "none"
   /\ \/ <<last.X.shape[2], last.X.shape[3], last.X.shape[4]>> # FrameShape(cell)
      \/ \E t \in {last.prev[1], last.prev[2]} :
            <<t.shape[2], t.shape[3], t.shape[4]>> # StateShape(cell)) =>
     last.kind = "error"

\* C7: with an even kernel dimension, forward on a frame of the configured
\* shape and the state from init_hidden(batch) completes and returns a pair.
C7_EvenKernelWorks ==
  (clean /\ steps = 1 /\ ~OddKernel(cell)) => last.kind = "ok"

\* C8: a peephole tensor is trainable exactly when peephole=True and a
\* tied-bias tensor exactly when tied_bias=True.
C8_TrainableIffFlag ==
  /\ \A n \in peep_names : cell.requires_grad[n] <=> cell.peephole
  /\ \A n \in tied_bias_names : cell.requires_grad[n] <=> cell.tied_bias

\* the same cell in the other gating mode
OtherMode(c) == [c EXCEPT !.gating_mode = IF c.gating_mode = "mul" THEN "sub" ELSE "mul"]

Pair(r) == <<r.Ht, r.Ct>>

NonTrivialGates(r) ==
  \/ \E ix \in Indices(r.i.shape) : r.i.data[ix] # 0
  \/ \E ix \in Indices(r.f.shape) : r.f.data[ix] # One

\* C9 as stated: on the same frame, previous state and weights, the pair
\* returned in multiplicative mode differs from the pair returned in
\* subtractive mode whenever i # 0 or f # 1 somewhere.
C9_ModesDifferWhenGatesNonTrivial ==
  (/\ last.kind = "ok" /\ cell.gating_mode \in {"mul", "sub"}
   /\ NonTrivialGates(last.out)) =>
     Pair(forward(OtherMode(cell), last.X, last.prev)) # Pair(last.out)

\* the two modes add different terms to f * Ctm1: i * tanh(z) and
\* hard_sigmoid(z) - i, for z the candidate before its activation
CandidateTermsDiffer(r) == Mul(r.i, tanh(r.z)) # Sub(hard_sigmoid(r.z), r.i)

\* C9 amended: the two pairs differ whenever the gates are non-trivial and
\* i * tanh(z) differs from hard_sigmoid(z) - i at some element.
C9_ModesDifferWhenTermsDiffer ==
  (/\ last.kind = "ok" /\ cell.gating_mode \in {"mul", "sub"}
   /\ NonTrivialGates(last.out) /\ CandidateTermsDiffer(last.out)) =>
     Pair(forward(OtherMode(cell), last.X, last.prev)) # Pair(last.out)

C9_Witness ==
  /\ last.kind = "ok" /\ cell.gating_mode = "sub"
  /\ NonTrivialGates(last.out) /\ CandidateTermsDiffer(last.out)
  /\ Pair(forward(OtherMode(cell), last.X, last.prev)) # Pair(last.out)

\* C10 as stated: every element of a returned Ht lies in [-1, 1], and in
\* multiplicative mode in [0, 1].
C10_HiddenBoundedMulNonNegative ==
  last.kind = "ok" =>
     /\ Within(last.out.Ht, -One, One)
     /\ cell.gating_mode = "mul" => Within(last.out.Ht, 0, One)

\* C10 amended: every element of a returned Ht lies in [-1, 1] in every
\* mode; elements below 0 occur in subtractive and in multiplicative mode.
C10_HiddenBounded ==
  last.kind = "ok" => Within(last.out.Ht, -One, One)

C10_Witness ==
  /\ last.kind = "ok" /\ cell.gating_mode = "sub" /\ steps = MaxSteps
  /\ \E ix \in Indices(last.out.Ht.shape) : last.out.Ht.data[ix] < 0
====
